---- MODULE Spec2Model ----
(***************************************************************************)
(* Scene node of kiss3d (src/scene/object.rs): ObjectData, the per-node    *)
(* rendering attributes, and Object, which pairs an ObjectData with a      *)
(* shared Rc<RefCell<Mesh>>.  The model follows the ownership discipline   *)
(* of the code: Rc handles are identities (small integers), RefCell        *)
(* borrows are counted flags that panic on conflict, the mesh buffers sit  *)
(* behind per-buffer RwLocks, and the caller-supplied closures of the      *)
(* buffer accessors (and the material's render) are open call frames in    *)
(* which further operations may be invoked.  Object is neither Send nor    *)
(* Sync (it holds Rc), so operations overlap only by such re-entrancy.     *)
(*                                                                         *)
(* Three specifications share the state and the actions: Spec (the buffer  *)
(* layer), SpecAttr (the attribute layer) and SpecRender (the render       *)
(* layer).  The mutators write data[n] only and the accessors the mesh     *)
(* only, which is what lets each layer be explored on its own.             *)
(***************************************************************************)
EXTENDS Integers, Sequences, FiniteSets, TLC

\* ---------------------------------------------------------------- bounds
MaxNodes == 2
MaxMeshes == 2
MaxVal == 1
MaxDepth == 2
MaxWrites == 2
MaxMutations == 1
NumMaterials == 2
NumNames == 2

Nodes == 1..MaxNodes
MeshIds == 1..MaxMeshes
Vals == 0..MaxVal
Materials == 1..NumMaterials
Names == 1..NumNames
\* Rc<Texture> identities: 0 is the texture the caller built the node with,
\* i is the texture the registry holds for name i.
Textures == 0..NumNames

\* Option::None of a buffer (GPUVec::data), of lines_color, of a node result.
NoData == -1
NoColor == <<>>
NoNode == 0
\* The unit value () boxed as user_data.
Unit == "unit"
UserDatas == {Unit, "payload"}
Buffers == {"coords", "normals", "faces", "uvs"}
\* Arguments the caller passes for a colour (r, g, b).
ColorInputs == {<<0, 0, 1>>, <<1, 0, 0>>}

VARIABLES
    live,        \* the nodes constructed so far
    data,        \* data[n]: the ObjectData of node n
    mesh,        \* mesh[n]: the Rc<RefCell<Mesh>> node n holds
    meshes,      \* meshes[m]: the Mesh behind handle m
    meshBorrow,  \* meshBorrow[m]: the RefCell flag of m (-1 writing, k readers)
    lock,        \* lock[m][b]: the RwLock of buffer b of m (-1 writer, k readers)
    materials,   \* materials[h]: the material behind handle h
    matBorrow,   \* matBorrow[h]: the RefCell flag of material h
    registry,    \* the names registered in the global TextureManager
    camera,      \* the camera's internal state (cache touched by a render)
    stack,       \* the open closures: accessor callbacks and material renders
    panicked,    \* "none", or the panic that ended the program
    ops,         \* number of mutations (of buffer writes, in the buffer layer) made so far
    given,       \* given[n]: the handles the caller gave n, and the node n was cloned from
    wrote,       \* wrote.val[m][b]: what was last written to buffer b through a node given mesh m; wrote.by: the last writer
    told         \* told[h]: the parameter callers last set through a handle to material h

vars == <<live, data, mesh, meshes, meshBorrow, lock, materials, matBorrow,
          registry, camera, stack, panicked, ops, given, wrote, told>>

\* ------------------------------------------------------------ ObjectData
\* Object::new's ObjectData literal.
NewData(c, texture, material) ==
    [material |-> material, texture |-> texture, color |-> c,
     lines_color |-> NoColor, wlines |-> 0, wpoints |-> 0,
     draw_surface |-> TRUE, cull |-> TRUE, user_data |-> Unit]

\* The slot of a node that was not constructed yet.
Vacant == NewData(<<0, 0, 0>>, 0, 1)

\* Mutants of ObjectData::try_clone.
ObjectDataTryCloneKeepsPayload(d) == d
ObjectDataTryCloneOtherMaterial(d) ==
    [d EXCEPT !.user_data = Unit, !.material = (d.material % NumMaterials) + 1]

\* ObjectData::try_clone: always Some; the Rc handles are cloned (same
\* instances), the values copied, the user data reset to ().
ObjectDataTryClone(d) ==
    [material |-> d.material, texture |-> d.texture, color |-> d.color,
     lines_color |-> d.lines_color, wlines |-> d.wlines, wpoints |-> d.wpoints,
     draw_surface |-> d.draw_surface, cull |-> d.cull, user_data |-> Unit]

\* ------------------------------------------------------------------ Mesh
\* A Mesh: the four buffers (NoData: the GPUVec holds no data), whether its
\* GPU-side state was set up, and whether its configuration can be cloned.
MeshOf(buf, cloneable) ==
    [alloc |-> TRUE, buf |-> buf, gpu |-> FALSE, cloneable |-> cloneable]

\* A handle behind which no mesh was allocated yet.
FreeMesh ==
    [alloc |-> FALSE, buf |-> [b \in Buffers |-> NoData], gpu |-> FALSE,
     cloneable |-> FALSE]

\* The meshes a caller hands to Object::new: all four buffers loaded, or
\* positions and faces only (no normals, no texture coordinates).
MeshInputs ==
    { [b \in Buffers |-> IF b \in present THEN 0 ELSE NoData] :
        present \in {Buffers, {"coords", "faces"}} }

\* Mesh::try_clone(false): NoData-free value copies of the four buffers and no
\* GPU-side state, or None (FreeMesh) when the mesh declines cloning.
MeshTryClone(mc) ==
    IF mc.cloneable THEN [mc EXCEPT !.gpu = FALSE] ELSE FreeMesh

\* Mesh::recompute_normals: the normals derived from positions and faces
\* overwrite the normals buffer.
MeshRecomputeNormals(mc) ==
    IF mc.buf["coords"] # NoData /\ mc.buf["faces"] # NoData
    THEN [mc EXCEPT !.buf["normals"] = (mc.buf["coords"] + mc.buf["faces"]) % (MaxVal + 1)]
    ELSE mc

\* ------------------------------------------------- borrows and receivers
Running == panicked.kind = "none"
NoPanic == [kind |-> "none", op |-> "none", node |-> NoNode, buf |-> "none"]
Panic(kind, op, n, b) == [kind |-> kind, op |-> op, node |-> n, buf |-> b]

Depth == Len(stack)
Top == stack[Depth]

\* A frame of the call stack: the closure of an accessor ("read", "modify")
\* or the material's render ("render") running on behalf of node n.
Frame(kind, n, b, snap) ==
    [kind |-> kind, node |-> n, buf |-> b, snap |-> snap,
     mat |-> data[n].material, pre |-> data[n], premesh |-> mesh[n]]

\* A method taking &self can be called on n unless a &mut self method of n is
\* still running; a method taking &mut self needs n to be unborrowed.
CanCallShared(n) ==
    \A i \in 1..Depth : ~(stack[i].node = n /\ stack[i].kind = "modify")
CanCallMut(n) ==
    \A i \in 1..Depth : stack[i].node # n

\* RefCell::borrow / borrow_mut succeed.
CanBorrow(flag) == flag >= 0
CanBorrowMut(flag) == flag = 0

\* The node slot and the mesh handle the next allocation gets.
NextNode == Cardinality(live) + 1
NextMesh == Cardinality({m \in MeshIds : meshes[m].alloc}) + 1


Init ==
    /\ live = {}
    /\ data = [n \in Nodes |-> Vacant]
    /\ mesh = [n \in Nodes |-> 0]
    /\ \E buf \in MeshInputs, cl \in BOOLEAN :
         meshes = [m \in MeshIds |-> IF m = 1 THEN MeshOf(buf, cl) ELSE FreeMesh]
    /\ meshBorrow = [m \in MeshIds |-> 0]
    /\ lock = [m \in MeshIds |-> [b \in Buffers |-> 0]]
    /\ materials = [h \in Materials |-> [param |-> 0, drawn |-> FALSE]]
    /\ matBorrow = [h \in Materials |-> 0]
    /\ registry = {}
    /\ camera = FALSE
    /\ stack = <<>>
    /\ panicked = NoPanic
    /\ ops = 0
    /\ given = [n \in Nodes |-> [material |-> 0, mesh |-> 0, cloneOf |-> NoNode]]
    /\ wrote = [val |-> [m \in MeshIds |-> meshes[m].buf], by |-> NoNode]
    /\ told = [h \in Materials |-> 0]

\* ------------------------------------------------- construction, cloning
\* Object::new: the node keeps the handles it is given.
New(m, c, t, h) ==
    /\ Running
    /\ NextNode \in Nodes
    /\ meshes[m].alloc
    /\ live' = live \cup {NextNode}
    /\ data' = [data EXCEPT ![NextNode] = NewData(c, t, h)]
    /\ mesh' = [mesh EXCEPT ![NextNode] = m]
    /\ given' = [given EXCEPT ![NextNode] = [material |-> h, mesh |-> m, cloneOf |-> NoNode]]
    /\ UNCHANGED <<meshes, meshBorrow, lock, materials, matBorrow, registry,
                   camera, stack, panicked, ops, wrote, told>>

\* Mutant of TryCloneMesh: the clone keeps the original's Rc.
TryCloneMeshShared(n, fresh) == mesh[n]

\* The handle Object::try_clone wraps the cloned mesh in: a new Rc.
TryCloneMesh(n, fresh) == fresh

\* Object::try_clone, Some: the attributes are cloned, the mesh is borrowed
\* and cloned (under read access to its buffers) into a new Rc<RefCell<_>>.
TryClone(n) ==
    /\ Running
    /\ n \in live /\ CanCallShared(n)
    /\ NextNode \in Nodes /\ NextMesh \in MeshIds
    /\ CanBorrow(meshBorrow[mesh[n]])
    /\ \A b \in Buffers : lock[mesh[n]][b] >= 0
    /\ MeshTryClone(meshes[mesh[n]]).alloc
    /\ LET m2 == TryCloneMesh(n, NextMesh) IN
         /\ live' = live \cup {NextNode}
         /\ data' = [data EXCEPT ![NextNode] = ObjectDataTryClone(data[n])]
         /\ mesh' = [mesh EXCEPT ![NextNode] = m2]
         /\ meshes' = [meshes EXCEPT ![NextMesh] = MeshTryClone(meshes[mesh[n]])]
         /\ given' = [given EXCEPT ![NextNode] =
                        [material |-> given[n].material, mesh |-> NextMesh, cloneOf |-> n]]
         /\ wrote' = [wrote EXCEPT !.val[NextMesh] = meshes[mesh[n]].buf]
    /\ UNCHANGED <<meshBorrow, lock, materials, matBorrow, registry, camera,
                   stack, panicked, ops, told>>

\* Object::try_clone, None: the mesh declines cloning; nothing changes.
TryCloneDeclined(n) ==
    /\ Running
    /\ n \in live /\ CanCallShared(n)
    /\ CanBorrow(meshBorrow[mesh[n]])
    /\ ~MeshTryClone(meshes[mesh[n]]).alloc
    /\ UNCHANGED vars

\* Object::try_clone while the mesh is mutably borrowed: self.mesh.borrow()
\* panics.
TryClonePanic(n) ==
    /\ Running
    /\ n \in live /\ CanCallShared(n)
    /\ ~CanBorrow(meshBorrow[mesh[n]])
    /\ panicked' = Panic("BorrowError", "try_clone", n, "none")
    /\ UNCHANGED <<live, data, mesh, meshes, meshBorrow, lock, materials,
                   matBorrow, registry, camera, stack, ops, given, wrote, told>>

\* ---------------------------------------------------- attribute mutators
\* What every mutator shares: a &mut self receiver on a live node, and the
\* frame: only data[n] changes.
Mutate(n, d) ==
    /\ Running
    /\ n \in live /\ CanCallMut(n)
    /\ ops < MaxMutations
    /\ ops' = ops + 1
    /\ data' = [data EXCEPT ![n] = d]
    /\ UNCHANGED <<live, mesh, meshes, meshBorrow, lock, materials, matBorrow,
                   camera, stack, panicked, wrote, told>>

\* Object::enable_backface_culling
EnableBackfaceCulling(n, active) ==
    /\ Mutate(n, [data[n] EXCEPT !.cull = active])
    /\ UNCHANGED <<registry, given>>

\* Object::set_user_data
SetUserData(n, u) ==
    /\ Mutate(n, [data[n] EXCEPT !.user_data = u])
    /\ UNCHANGED <<registry, given>>

\* Object::set_material: only this node's reference is replaced.
SetMaterial(n, h) ==
    /\ Mutate(n, [data[n] EXCEPT !.material = h])
    /\ given' = [given EXCEPT ![n].material = h]
    /\ UNCHANGED registry

\* Object::set_lines_width
SetLinesWidth(n, width) ==
    /\ Mutate(n, [data[n] EXCEPT !.wlines = width])
    /\ UNCHANGED <<registry, given>>

\* Object::set_lines_color
SetLinesColor(n, c) ==
    /\ Mutate(n, [data[n] EXCEPT !.lines_color = c])
    /\ UNCHANGED <<registry, given>>

\* Object::set_points_size
SetPointsSize(n, size) ==
    /\ Mutate(n, [data[n] EXCEPT !.wpoints = size])
    /\ UNCHANGED <<registry, given>>

\* Object::set_surface_rendering_activation
SetSurfaceRenderingActivation(n, active) ==
    /\ Mutate(n, [data[n] EXCEPT !.draw_surface = active])
    /\ UNCHANGED <<registry, given>>

\* Object::set_color: the three channels are assigned one by one.
SetColor(n, r, g, b) ==
    /\ Mutate(n, [data[n] EXCEPT !.color = <<r, g, b>>])
    /\ UNCHANGED <<registry, given>>

\* Object::set_texture
SetTexture(n, t) ==
    /\ Mutate(n, [data[n] EXCEPT !.texture = t])
    /\ UNCHANGED <<registry, given>>

\* ------------------------------------------------------- texture registry
\* TextureManager::add(path, name): the texture registered as name, loaded
\* and registered first when the name is new.
TextureManagerAdd(name) == [registry |-> registry \cup {name}, texture |-> name]

\* TextureManager::get(name): the texture registered as name, if any.
TextureManagerGet(name) == IF name \in registry THEN name ELSE NoData

\* Object::set_texture_from_file
SetTextureFromFile(n, name) ==
    /\ Mutate(n, [data[n] EXCEPT !.texture = TextureManagerAdd(name).texture])
    /\ registry' = TextureManagerAdd(name).registry
    /\ UNCHANGED given

\* Mutant of UnregisteredTexture: a lookup miss falls back to the
\* caller's texture instead of panicking.
UnregisteredTextureIgnored(n, name) ==
    /\ TextureManagerGet(name) = NoData
    /\ Mutate(n, [data[n] EXCEPT !.texture = 0])
    /\ UNCHANGED <<registry, given>>

\* Object::set_texture_with_name on a name that is not registered: the
\* closure given to unwrap_or_else panics, set_texture is never reached.
UnregisteredTexture(n, name) ==
    /\ TextureManagerGet(name) = NoData
    /\ panicked' = Panic("UnregisteredTexture", "set_texture_with_name", n, "none")
    /\ UNCHANGED <<live, data, mesh, meshes, meshBorrow, lock, materials,
                   matBorrow, registry, camera, stack, ops, given, wrote, told>>

\* Object::set_texture_with_name
SetTextureWithName(n, name) ==
    /\ Running
    /\ n \in live /\ CanCallMut(n)
    /\ IF TextureManagerGet(name) # NoData
       THEN /\ Mutate(n, [data[n] EXCEPT !.texture = TextureManagerGet(name)])
            /\ UNCHANGED <<registry, given>>
       ELSE UnregisteredTexture(n, name)

\* ------------------------------------------------------- buffer accessors
\* Everything but the mesh-side state an accessor leaves alone.
AccessorFrame ==
    UNCHANGED <<live, data, mesh, materials, matBorrow, registry, camera,
                given, told>>

\* Object::modify_vertices / modify_normals / modify_faces / modify_uvs while
\* the mesh is borrowed: self.mesh.borrow_mut() panics.
ModifyPanic(n, b) ==
    /\ Running
    /\ n \in live /\ CanCallMut(n)
    /\ ~CanBorrowMut(meshBorrow[mesh[n]])
    /\ panicked' = Panic("BorrowMutError", "modify", n, b)
    /\ UNCHANGED <<ops, meshes, meshBorrow, lock, stack, wrote>>
    /\ AccessorFrame

\* modify_* on a buffer that holds no data: the closure is not called, the
\* guards are dropped on return.
ModifyAbsent(n, b) ==
    /\ Running
    /\ n \in live /\ CanCallMut(n)
    /\ CanBorrowMut(meshBorrow[mesh[n]])
    /\ lock[mesh[n]][b] = 0
    /\ meshes[mesh[n]].buf[b] = NoData
    /\ UNCHANGED <<ops, meshes, meshBorrow, lock, stack, panicked, wrote>>
    /\ AccessorFrame

\* modify_* on a buffer that holds data: the mesh is borrowed mutably, the
\* buffer write-locked, and the closure called with the Vec.
ModifyBegin(n, b) ==
    /\ Running
    /\ n \in live /\ CanCallMut(n)
    /\ Depth < MaxDepth
    /\ CanBorrowMut(meshBorrow[mesh[n]])
    /\ lock[mesh[n]][b] = 0
    /\ meshes[mesh[n]].buf[b] # NoData
    /\ meshBorrow' = [meshBorrow EXCEPT ![mesh[n]] = -1]
    /\ lock' = [lock EXCEPT ![mesh[n]][b] = -1]
    /\ stack' = Append(stack, Frame("modify", n, b, meshes[mesh[n]].buf[b]))
    /\ UNCHANGED <<ops, meshes, panicked, wrote>>
    /\ AccessorFrame

\* Mutant of WriteBuffer: the closure is run on a copy of the buffer.
WriteBufferCopy(mc, b, v) == mc

\* The closure of modify_* assigns through the &mut Vec it was given.
WriteBuffer(mc, b, v) == [mc EXCEPT !.buf[b] = v]

\* One assignment made by the running closure of a modify_*.
CallbackWrite(v) ==
    /\ Running
    /\ Depth > 0 /\ Top.kind = "modify"
    /\ ops < MaxWrites
    /\ ops' = ops + 1
    /\ meshes' = [meshes EXCEPT ![mesh[Top.node]] = WriteBuffer(@, Top.buf, v)]
    /\ wrote' = [wrote EXCEPT !.val[given[Top.node].mesh][Top.buf] = v, !.by = Top.node]
    /\ UNCHANGED <<meshBorrow, lock, stack, panicked>>
    /\ AccessorFrame

\* The closure of a modify_* returns: the write guard and the RefMut drop.
ModifyEnd ==
    /\ Running
    /\ Depth > 0 /\ Top.kind = "modify"
    /\ meshBorrow' = [meshBorrow EXCEPT ![mesh[Top.node]] = 0]
    /\ lock' = [lock EXCEPT ![mesh[Top.node]][Top.buf] = 0]
    /\ stack' = SubSeq(stack, 1, Depth - 1)
    /\ UNCHANGED <<ops, meshes, panicked, wrote>>
    /\ AccessorFrame

\* Object::read_vertices / read_normals / read_faces / read_uvs while the
\* mesh is mutably borrowed: self.mesh.borrow() panics.
ReadPanic(n, b) ==
    /\ Running
    /\ n \in live /\ CanCallShared(n)
    /\ ~CanBorrow(meshBorrow[mesh[n]])
    /\ panicked' = Panic("BorrowError", "read", n, b)
    /\ UNCHANGED <<ops, meshes, meshBorrow, lock, stack, wrote>>
    /\ AccessorFrame

\* read_* on a buffer that holds no data: the closure is not called.
ReadAbsent(n, b) ==
    /\ Running
    /\ n \in live /\ CanCallShared(n)
    /\ CanBorrow(meshBorrow[mesh[n]])
    /\ lock[mesh[n]][b] >= 0
    /\ meshes[mesh[n]].buf[b] = NoData
    /\ UNCHANGED <<ops, meshes, meshBorrow, lock, stack, panicked, wrote>>
    /\ AccessorFrame

\* read_* on a buffer that holds data: the mesh is borrowed, the buffer
\* read-locked, and the closure called with the slice.
ReadBegin(n, b) ==
    /\ Running
    /\ n \in live /\ CanCallShared(n)
    /\ Depth < MaxDepth
    /\ CanBorrow(meshBorrow[mesh[n]])
    /\ lock[mesh[n]][b] >= 0
    /\ meshes[mesh[n]].buf[b] # NoData
    /\ meshBorrow' = [meshBorrow EXCEPT ![mesh[n]] = @ + 1]
    /\ lock' = [lock EXCEPT ![mesh[n]][b] = @ + 1]
    /\ stack' = Append(stack, Frame("read", n, b, meshes[mesh[n]].buf[b]))
    /\ UNCHANGED <<ops, meshes, panicked, wrote>>
    /\ AccessorFrame

\* The closure of a read_* returns: the read guard and the Ref drop.
ReadEnd ==
    /\ Running
    /\ Depth > 0 /\ Top.kind = "read"
    /\ meshBorrow' = [meshBorrow EXCEPT ![mesh[Top.node]] = @ - 1]
    /\ lock' = [lock EXCEPT ![mesh[Top.node]][Top.buf] = @ - 1]
    /\ stack' = SubSeq(stack, 1, Depth - 1)
    /\ UNCHANGED <<ops, meshes, panicked, wrote>>
    /\ AccessorFrame

\* Object::recompute_normals while the mesh is borrowed.
RecomputeNormalsPanic(n) ==
    /\ Running
    /\ n \in live /\ CanCallMut(n)
    /\ ~CanBorrowMut(meshBorrow[mesh[n]])
    /\ panicked' = Panic("BorrowMutError", "recompute_normals", n, "normals")
    /\ UNCHANGED <<ops, meshes, meshBorrow, lock, stack, wrote>>
    /\ AccessorFrame

\* Object::recompute_normals: forwards to the mesh under a mutable borrow.
RecomputeNormals(n) ==
    /\ Running
    /\ n \in live /\ CanCallMut(n)
    /\ CanBorrowMut(meshBorrow[mesh[n]])
    /\ ops < MaxWrites
    /\ ops' = ops + 1
    /\ meshes' = [meshes EXCEPT ![mesh[n]] = MeshRecomputeNormals(@)]
    /\ wrote' = [wrote EXCEPT !.val[given[n].mesh]["normals"] =
                                  MeshRecomputeNormals(meshes[mesh[n]]).buf["normals"],
                              !.by = n]
    /\ UNCHANGED <<meshBorrow, lock, stack, panicked>>
    /\ AccessorFrame

\* ---------------------------------------------------- material and render
\* Object::material: a clone of the node's handle (the same instance).
ObjectMaterial(n) == data[n].material

\* A caller sets a parameter of the material behind the handle of node a.
MutateMaterial(a, v) ==
    /\ Running
    /\ a \in live /\ CanCallShared(a)
    /\ CanBorrowMut(matBorrow[ObjectMaterial(a)])
    /\ materials' = [materials EXCEPT ![ObjectMaterial(a)].param = v]
    /\ told' = [told EXCEPT ![given[a].material] = v]
    /\ ops < MaxMutations
    /\ ops' = ops + 1
    /\ UNCHANGED <<live, data, mesh, meshes, meshBorrow, lock, matBorrow,
                   registry, camera, stack, panicked, given, wrote>>

\* What a render leaves alone besides the borrow flags and the stack.
RenderFrame ==
    UNCHANGED <<live, data, mesh, lock, registry, ops, given, wrote, told>>

\* Object::render while the material is borrowed: material.borrow_mut()
\* panics.
RenderPanicMaterial(n) ==
    /\ Running
    /\ n \in live /\ CanCallShared(n)
    /\ ~CanBorrowMut(matBorrow[data[n].material])
    /\ panicked' = Panic("BorrowMutError", "render", n, "material")
    /\ UNCHANGED <<meshes, meshBorrow, materials, matBorrow, camera, stack>>
    /\ RenderFrame

\* Object::render while the mesh is borrowed: mesh.borrow_mut() panics.
RenderPanicMesh(n) ==
    /\ Running
    /\ n \in live /\ CanCallShared(n)
    /\ CanBorrowMut(matBorrow[data[n].material])
    /\ ~CanBorrowMut(meshBorrow[mesh[n]])
    /\ panicked' = Panic("BorrowMutError", "render", n, "mesh")
    /\ UNCHANGED <<meshes, meshBorrow, materials, matBorrow, camera, stack>>
    /\ RenderFrame

\* Object::render: the material and the mesh are borrowed mutably and the
\* material's render is called with &self.data and &mut Mesh.
RenderBegin(n) ==
    /\ Running
    /\ n \in live /\ CanCallShared(n)
    /\ Depth < MaxDepth
    /\ CanBorrowMut(matBorrow[data[n].material])
    /\ CanBorrowMut(meshBorrow[mesh[n]])
    /\ matBorrow' = [matBorrow EXCEPT ![data[n].material] = -1]
    /\ meshBorrow' = [meshBorrow EXCEPT ![mesh[n]] = -1]
    /\ stack' = Append(stack, Frame("render", n, "none", materials[data[n].material].param))
    /\ UNCHANGED <<meshes, materials, camera, panicked>>
    /\ RenderFrame

\* Material::render at work: it may set up the mesh's GPU-side state, touch
\* the camera and change its own state; the attributes are read-only to it.
MaterialDraw ==
    /\ Running
    /\ Depth > 0 /\ Top.kind = "render"
    /\ meshes' = [meshes EXCEPT ![mesh[Top.node]].gpu = TRUE]
    /\ materials' = [materials EXCEPT ![Top.mat].drawn = TRUE]
    /\ camera' = TRUE
    /\ UNCHANGED <<meshBorrow, matBorrow, stack, panicked>>
    /\ RenderFrame

\* Mutant of RenderRelease: the RefMut of the mesh outlives the call.
RenderReleaseLeaksMesh(n) ==
    /\ matBorrow' = [matBorrow EXCEPT ![data[n].material] = 0]
    /\ UNCHANGED meshBorrow

\* The temporaries of Object::render drop when the statement ends.
RenderRelease(n) ==
    /\ matBorrow' = [matBorrow EXCEPT ![data[n].material] = 0]
    /\ meshBorrow' = [meshBorrow EXCEPT ![mesh[n]] = 0]

\* Material::render returns, and Object::render with it.
RenderEnd ==
    /\ Running
    /\ Depth > 0 /\ Top.kind = "render"
    /\ RenderRelease(Top.node)
    /\ stack' = SubSeq(stack, 1, Depth - 1)
    /\ UNCHANGED <<meshes, materials, camera, panicked>>
    /\ RenderFrame

\* ------------------------------------------------------- specifications
\* The buffer layer: construction, cloning, the eight accessors with their
\* closures and recompute_normals.  ops counts the writes made.
Next ==
    \/ \E m \in MeshIds : New(m, <<0, 0, 1>>, 0, 1)
    \/ \E n \in Nodes : TryClone(n)
    \/ \E n \in Nodes : TryCloneDeclined(n)
    \/ \E n \in Nodes : TryClonePanic(n)
    \/ \E n \in Nodes, b \in Buffers : ModifyPanic(n, b)
    \/ \E n \in Nodes, b \in Buffers : ModifyAbsent(n, b)
    \/ \E n \in Nodes, b \in Buffers : ModifyBegin(n, b)
    \/ \E v \in Vals : CallbackWrite(v)
    \/ ModifyEnd
    \/ \E n \in Nodes, b \in Buffers : ReadPanic(n, b)
    \/ \E n \in Nodes, b \in Buffers : ReadAbsent(n, b)
    \/ \E n \in Nodes, b \in Buffers : ReadBegin(n, b)
    \/ ReadEnd
    \/ \E n \in Nodes : RecomputeNormalsPanic(n)
    \/ \E n \in Nodes : RecomputeNormals(n)

Spec == Init /\ [][Next]_vars

\* The caller's mesh of the attribute and render layers has every buffer.
InitLoaded == Init /\ \A b \in Buffers : meshes[1].buf[b] # NoData

\* The attribute layer: construction, cloning, every mutator and the
\* texture registry.  ops counts the mutations made.
NextAttr ==
    \/ \E m \in MeshIds, h \in Materials : New(m, <<0, 0, 1>>, 0, h)
    \/ \E n \in Nodes : TryClone(n)
    \/ \E n \in Nodes : TryCloneDeclined(n)
    \/ \E n \in Nodes, active \in BOOLEAN : EnableBackfaceCulling(n, active)
    \/ \E n \in Nodes, u \in UserDatas : SetUserData(n, u)
    \/ \E n \in Nodes, h \in Materials : SetMaterial(n, h)
    \/ \E n \in Nodes, width \in Vals : SetLinesWidth(n, width)
    \/ \E n \in Nodes, c \in ColorInputs \cup {NoColor} : SetLinesColor(n, c)
    \/ \E n \in Nodes, size \in Vals : SetPointsSize(n, size)
    \/ \E n \in Nodes, active \in BOOLEAN : SetSurfaceRenderingActivation(n, active)
    \/ \E n \in Nodes, c \in ColorInputs : SetColor(n, c[1], c[2], c[3])
    \/ \E n \in Nodes, t \in Textures : SetTexture(n, t)
    \/ \E n \in Nodes, name \in Names : SetTextureFromFile(n, name)
    \/ \E n \in Nodes, name \in Names : SetTextureWithName(n, name)

SpecAttr == InitLoaded /\ [][NextAttr]_vars

\* The render layer: construction, cloning, the shared material handles
\* and render with the material's callback.  ops counts the mutations made.
NextRender ==
    \/ \E m \in MeshIds, h \in Materials : New(m, <<0, 0, 1>>, 0, h)
    \/ \E n \in Nodes : TryClone(n)
    \/ \E n \in Nodes : TryCloneDeclined(n)
    \/ \E n \in Nodes, h \in Materials : SetMaterial(n, h)
    \/ \E n \in Nodes, c \in ColorInputs : SetColor(n, c[1], c[2], c[3])
    \/ \E n \in Nodes, u \in UserDatas : SetUserData(n, u)
    \/ \E a \in Nodes, v \in Vals : MutateMaterial(a, v)
    \/ \E n \in Nodes : RenderPanicMaterial(n)
    \/ \E n \in Nodes : RenderPanicMesh(n)
    \/ \E n \in Nodes : RenderBegin(n)
    \/ MaterialDraw
    \/ RenderEnd

SpecRender == InitLoaded /\ [][NextRender]_vars

\* ================================================================ claims
\* The frames of the stack that are closures of a read_* / of a render.
ReadFrames == {i \in 1..Depth : stack[i].kind = "read"}
RenderFrames == {i \in 1..Depth : stack[i].kind = "render"}

WritesThrough(a) ==
    \/ Depth > 0 /\ Top.kind = "modify" /\ Top.node = a /\ \E v \in Vals : CallbackWrite(v)
    \/ RecomputeNormals(a)

\* C2: the clone's mesh is behind a handle no existing node holds, its four
\* buffers start as copies of the original's, and a later write through the
\* clone or through the original leaves the other's buffers as they were.
C2_CloneMeshIndependent ==
    [][/\ \A n \in Nodes : TryClone(n) =>
            /\ mesh'[NextNode] \notin {mesh[k] : k \in live}
            /\ meshes'[mesh'[NextNode]].buf = meshes[mesh[n]].buf
       /\ \A k \in live : given[k].cloneOf # NoNode =>
            /\ WritesThrough(k) =>
                 meshes'[mesh[given[k].cloneOf]] = meshes[mesh[given[k].cloneOf]]
            /\ WritesThrough(given[k].cloneOf) =>
                 meshes'[mesh[k]] = meshes[mesh[k]]]_vars

\* A clone and its original whose positions differ after a write by node 1.
C2_Witness ==
    \E k \in live :
        /\ given[k].cloneOf = 1
        /\ wrote.by = 1
        /\ meshes[mesh[k]].buf["coords"] # meshes[mesh[1]].buf["coords"]

\* C3: a read of one buffer, issued while the closure of a modify_* of
\* another buffer of the same mesh is running, is not failed.
C3_WriteDoesNotFailOtherBufferRead ==
    ~(/\ panicked.op = "read"
      /\ \E i \in 1..Depth :
            /\ stack[i].kind = "modify"
            /\ mesh[stack[i].node] = mesh[panicked.node]
            /\ stack[i].buf # panicked.buf)

\* Every outstanding read still sees the contents it started with.
ReadersStable ==
    \A i \in ReadFrames :
        meshes[mesh[stack[i].node]].buf[stack[i].buf] = stack[i].snap

\* C4: overlapping reads of a buffer see the same contents, no outstanding
\* read sees a write, and a modify_* requested on a buffer while a read of it
\* is outstanding is never rejected.
C4_WriteWaitsForReaders ==
    /\ ReadersStable
    /\ \A i, j \in ReadFrames :
         (mesh[stack[i].node] = mesh[stack[j].node] /\ stack[i].buf = stack[j].buf)
             => stack[i].snap = stack[j].snap
    /\ ~(/\ panicked.op = "modify"
         /\ \E i \in ReadFrames :
               /\ mesh[stack[i].node] = mesh[panicked.node]
               /\ stack[i].buf = panicked.buf)

Access(n, b) ==
    \/ ModifyPanic(n, b) \/ ModifyAbsent(n, b) \/ ModifyBegin(n, b)
    \/ ReadPanic(n, b) \/ ReadAbsent(n, b) \/ ReadBegin(n, b)

\* C6: an accessor called on a buffer that holds no data does not call the
\* closure, raises no error and leaves the mesh alone; called on a buffer
\* that holds data it calls the closure once.
C6_AbsentBufferSilentSkip ==
    [][\A n \in Nodes, b \in Buffers : Access(n, b) =>
         IF meshes[mesh[n]].buf[b] = NoData
         THEN stack' = stack /\ panicked' = panicked /\ meshes' = meshes
         ELSE Len(stack') = Len(stack) + 1 /\ stack'[Len(stack')].node = n]_vars

\* C7: no call of try_clone crashes.
C7_TryCloneNeverCrashes == panicked.op # "try_clone"

C9_RenderLeavesAttributes ==
    [][RenderEnd =>
         /\ data'[Top.node] = Top.pre
         /\ mesh'[Top.node] = Top.premesh
         /\ matBorrow'[Top.mat] = 0
         /\ meshBorrow'[Top.premesh] = 0]_vars

\* A render that drew and returned, on a node carrying a payload.
C9_Witness ==
    /\ Depth = 0 /\ camera
    /\ \E n \in live : meshes[mesh[n]].gpu /\ materials[data[n].material].drawn
                       /\ data[n].user_data = "payload"

\* C10: nodes constructed with one mesh handle hold one mesh; what any of
\* them reads of a buffer is what was last written to it through any of
\* them, and an outstanding read saw exactly that.
C10_SharedMeshWritesVisible ==
    /\ \A a, b \in live : given[a].mesh = given[b].mesh => mesh[a] = mesh[b]
    /\ \A n \in live, b \in Buffers :
         meshes[mesh[n]].buf[b] = wrote.val[given[n].mesh][b]
    /\ \A i \in ReadFrames :
         stack[i].snap = wrote.val[given[stack[i].node].mesh][stack[i].buf]

\* Node 2 reads the positions node 1 wrote last, after an earlier write,
\* through the mesh they share.
C10_Witness ==
    /\ Depth > 0 /\ Top.kind = "read" /\ Top.node = 2 /\ Top.buf = "coords"
    /\ given[1].mesh = given[2].mesh
    /\ ops = MaxWrites /\ wrote.by = 1
    /\ Top.snap = 1

====
